---- MODULE Spec2Model ----
(***************************************************************************)
(* simplesync.py: change-triggered rsync mirroring over a persistent ssh   *)
(* session.                                                                *)
(*                                                                         *)
(* Two threads of the process are modelled.  "main" runs the __main__      *)
(* block (lines 146-170) and every signal handler (stop_sync).  "obs" is   *)
(* the Observer thread that observer.start() (line 169) creates and        *)
(* observer.join() (line 170) waits for; it calls on_any_event for each    *)
(* queued event.  The remote-shell processes, the arrival of filesystem    *)
(* events and the arrival of signals are the environment.                  *)
(***************************************************************************)
EXTENDS Integers, Sequences, FiniteSets, TLC

(* ------------------------------ bounds --------------------------------- *)
MaxEvents == 2          \* filesystem events put on the observer's queue
MaxSignals == 2         \* SIGINT / SIGTERM deliveries to the process
MaxCrashes == 2         \* spontaneous deaths of remote-shell processes
MaxPatterns == 2        \* patterns per configured list (SpecCmd only)

(* ----------------------------- constants ------------------------------- *)
Threads == {"main", "obs"}
Signals == {"SIGINT", "SIGTERM"}
EventKinds == {"created", "modified", "deleted", "moved"}
Paths == {"a"}
Events == [kind : EventKinds, path : Paths]
\* Events are numbered in arrival order; number 0 stands for the on_start pass.
StartTrigger == [id |-> 0, kind |-> "start", path |-> ""]

SigNum(s) == IF s = "SIGINT" THEN 2 ELSE 15

(* ------------------------------ strings -------------------------------- *)
\* A string is a sequence of symbols: a space, a single quote, or a piece of
\* text that holds neither.
Sp == " "
Q == "'"

\* " ".join(l)
RECURSIVE Join(_)
Join(l) ==
    IF l = <<>> THEN <<>>
    ELSE IF Len(l) = 1 THEN l[1]
    ELSE l[1] \o <<Sp>> \o Join(Tail(l))

\* The words /bin/sh makes of a command line: split at spaces outside single
\* quotes, quotes removed.  An unterminated quote is a syntax error and
\* nothing is run.

\* Symbol i of line s stands inside single quotes.
Quoted(s, i) == Cardinality({j \in 1..(i - 1) : s[j] = Q}) % 2 = 1

\* The positions at which the shell splits line s: spaces outside quotes.
Breaks(s) == {i \in 1..Len(s) : s[i] = Sp /\ ~Quoted(s, i)}

\* The positions at which a word of s begins, B being the breaks of s.
Starts(s, B) == {i \in 1..Len(s) : i \notin B /\ (i = 1 \/ (i - 1) \in B)}

\* The word of s that begins at position i, quotes removed.
WordAt(s, B, i) ==
    LET later == {j \in B : j > i}
        last == IF later = {} THEN Len(s)
                ELSE (CHOOSE j \in later : \A k \in later : j <= k) - 1
    IN  SelectSeq(SubSeq(s, i, last), LAMBDA c : c # Q)

\* The words of s in order, B being its breaks and S its word starts.
WordsOf(s, B, S) ==
    [k \in 1..Cardinality(S) |->
        WordAt(s, B, CHOOSE i \in S : Cardinality({j \in S : j < i}) = k - 1)]

\* The words of line s; its breaks and word starts are computed once.
SplitLine(s) ==
    IF Quoted(s, Len(s) + 1) THEN <<>>
    ELSE CHOOSE w \in {WordsOf(s, B, S) : B \in {Breaks(s)},
                                          S \in {Starts(s, Breaks(s))}} : TRUE

ShellWords(s) == CHOOSE w \in {SplitLine(line) : line \in {s}} : TRUE

\* Lists of at most n elements of S.
ListsUpTo(S, n) == UNION {[1..k -> S] : k \in 0..n}

(* --------------------------- configurations ---------------------------- *)
\* The configuration of Spec: ignored_dirs, ignored_files and the arguments.
ScenarioDirs == << <<".git">>, <<"node_modules">> >>
ScenarioFiles == << <<"*.log">> >>
ScenarioArgs ==
    [remoteuser |-> <<"alice">>, remoteserver |-> <<"10.0.0.5">>,
     remoteport |-> 2222, remotepath |-> <<"/home/alice/proj">>,
     localpath |-> <<"/tmp/proj">>, verbose |-> FALSE]

\* The configurations of SpecCmd: patterns and paths with and without a space.
PatternChoices == {<<"x">>, <<"x", Sp, "y">>}
PathChoices == {<<"/p">>, <<"/p", Sp, "q">>}
ArgChoices ==
    [remoteuser : {<<"u">>}, remoteserver : {<<"h">>}, remoteport : {22},
     remotepath : PathChoices, localpath : PathChoices, verbose : BOOLEAN]

VARIABLES
    pc,             \* pc[t]: position of thread t
    stopPc,         \* position inside stop_sync ("none": not running)
    pending,        \* signals received whose Python handler has not run yet
    installed,      \* signals for which signal.signal(..., stop_sync) ran
    sigCount,       \* signals delivered so far (bounded)
    sigHandled,     \* the signal the running stop_sync was called for
    stopFrom,       \* lifecycle state in which stop_sync was first entered
    observerStopped,\* observer.stop() has been called
    queue,          \* the observer's event queue
    arrivals,       \* events queued so far (bounded)
    delivered,      \* numbers of the events passed to on_any_event, in order
    cur,            \* cur[t]: number of what triggered thread t's rsync_exec
    sawDead,        \* sawDead[t]: handle check_ssh saw dead in this call, or 0
    newPid,         \* newPid[t]: handle spawned by this call, or 0
    checks,         \* checks[t]: polls made by this rsync_exec call
    passes,         \* numbers of the triggers of the mirror commands started
    completed,      \* number of mirror commands that have returned
    ssh_process,    \* self.ssh_process: the stored handle (0: not yet set)
    spawned,        \* remote-shell processes spawned so far; handles 1..spawned
    alive,          \* handles of the remote-shell processes still running
    termSent,       \* handles that were sent the termination request
    termIssued,     \* stop_sync has called ssh_process.terminate()
    crashes,        \* spontaneous deaths so far (bounded)
    setupFailed,    \* some subprocess.Popen in setup_ssh raised
    exitStatus,     \* exit status of the process, -1 while it runs
    exitCause,      \* why the process ended
    cfg_dirs,       \* ignored_dirs_from_cfg (line 14)
    cfg_files,      \* ignored_files_from_cfg (line 15)
    args,           \* the parsed command-line arguments
    ignored_dirs,   \* self.ignored_dirs
    ignored_files,  \* self.ignored_files
    commands,       \* the argument vectors run by os.system, in order
    lastStatus,     \* what os.system returned last (discarded), -1 before
    unsynced        \* a local change was made after the latest pass started

vars == <<pc, stopPc, pending, installed, sigCount, sigHandled, stopFrom,
          observerStopped, queue, arrivals, delivered, cur, sawDead, newPid,
          checks, passes, completed, ssh_process, spawned, alive, termSent,
          termIssued, crashes, setupFailed, exitStatus, exitCause,
          cfg_dirs, cfg_files, args, ignored_dirs, ignored_files, commands,
          lastStatus, unsynced>>

sigVars == <<pending, installed, sigCount, sigHandled, stopFrom, stopPc>>
obsVars == <<observerStopped, queue, arrivals, delivered>>
callVars == <<cur, sawDead, newPid, checks>>
mirrorVars == <<passes, completed>>
sshVars == <<ssh_process, spawned, alive, termSent, termIssued, crashes>>
exitVars == <<setupFailed, exitStatus, exitCause>>
cfgVars == <<cfg_dirs, cfg_files, args>>
selfVars == <<ignored_dirs, ignored_files>>

(* ----------------------------- helpers --------------------------------- *)
Running == exitStatus = -1

\* Mirror commands in flight: started by os.system and not yet returned.
InFlight == Len(passes) - completed

\* Signals whose Python-level handler is waiting to run on the main thread.
Deliverable == pending \cap installed

\* The main thread executes its own code only when no handler is running or
\* waiting to run: Python runs a pending handler before the next instruction.
MainRuns == Running /\ stopPc = "none" /\ Deliverable = {}

\* A health check that always reports the session dead.
PollDead_always(p) == TRUE

\* Popen.poll() is not None: the process behind handle p has exited.
PollDead(p) == p \notin alive

HandlerPcs == {"check_ssh", "setup_ssh", "system", "rsync"}

\* The observer is started before the initial pass.
MainNext_startFirst(p) ==
    CASE p = "args"      -> "construct"
      [] p = "construct" -> "sigint"
      [] p = "sigint"    -> "sigterm"
      [] p = "sigterm"   -> "schedule"
      [] p = "schedule"  -> "start"
      [] p = "start"     -> "on_start"
      [] p = "on_start"  -> "join"
      [] OTHER           -> "join"

\* The signal handlers are installed before the session is established.
MainNext_handlersFirst(p) ==
    CASE p = "args"      -> "sigint"
      [] p = "sigint"    -> "sigterm"
      [] p = "sigterm"   -> "construct"
      [] p = "construct" -> "on_start"
      [] p = "on_start"  -> "schedule"
      [] p = "schedule"  -> "start"
      [] p = "start"     -> "join"
      [] OTHER           -> "join"

\* Statement order of the __main__ block.
MainNext(p) ==
    CASE p = "args"      -> "construct"
      [] p = "construct" -> "sigint"
      [] p = "sigint"    -> "sigterm"
      [] p = "sigterm"   -> "on_start"
      [] p = "on_start"  -> "schedule"
      [] p = "schedule"  -> "start"
      [] p = "start"     -> "join"
      [] OTHER           -> "join"

\* The session is terminated before the observer is stopped.
StopOrder_terminateFirst == <<"terminate", "stop", "exit">>

\* Statement order of stop_sync.
StopOrder == <<"stop", "terminate", "exit">>

StopNext(p) ==
    IF p = StopOrder[1] THEN StopOrder[2] ELSE
    IF p = StopOrder[2] THEN StopOrder[3] ELSE "none"

\* rsync_exec without its health check.
RsyncEntry_noCheck == "system"

\* First step of rsync_exec: self.check_ssh().
RsyncEntry == "check_ssh"

\* Where a thread continues when its rsync_exec call returns.
ReturnPc(t) == IF t = "main" THEN MainNext("on_start") ELSE "loop"

\* Lifecycle state of the process, read off the program position: INIT until
\* SyncOnChanges(args) is called (line 149), CONNECTING while its setup_ssh
\* runs, SYNCING-INITIAL from the return of the constructor until
\* observer.start() has returned (lines 160-169), WATCHING in observer.join()
\* (line 170), STOPPING while stop_sync runs, STOPPED once the process exited.
Phase ==
    IF exitStatus # -1 THEN "STOPPED"
    ELSE IF stopPc # "none" THEN "STOPPING"
    ELSE IF pc["main"] = "args" THEN "INIT"
    ELSE IF pc["main"] = "construct" THEN "CONNECTING"
    ELSE IF pc["main"] = "join" THEN "WATCHING"
    ELSE "SYNCING-INITIAL"

(* ------------------------------- Init ---------------------------------- *)
InitWith(dirs, files, a) ==
    /\ cfg_dirs = dirs
    /\ cfg_files = files
    /\ args = a
    /\ ignored_dirs = <<>>
    /\ ignored_files = <<>>
    /\ commands = <<>>
    /\ lastStatus = -1
    /\ unsynced = FALSE
    /\ pc = [t \in Threads |-> IF t = "main" THEN "args" ELSE "unstarted"]
    /\ stopPc = "none"
    /\ pending = {}
    /\ installed = {}
    /\ sigCount = 0
    /\ sigHandled = "none"
    /\ stopFrom = "none"
    /\ observerStopped = FALSE
    /\ queue = <<>>
    /\ arrivals = 0
    /\ delivered = <<>>
    /\ cur = [t \in Threads |-> StartTrigger.id]
    /\ sawDead = [t \in Threads |-> 0]
    /\ newPid = [t \in Threads |-> 0]
    /\ checks = [t \in Threads |-> 0]
    /\ passes = <<>>
    /\ completed = 0
    /\ ssh_process = 0
    /\ spawned = 0
    /\ alive = {}
    /\ termSent = {}
    /\ termIssued = FALSE
    /\ crashes = 0
    /\ setupFailed = FALSE
    /\ exitStatus = -1
    /\ exitCause = "none"

Init == InitWith(ScenarioDirs, ScenarioFiles, ScenarioArgs)

InitCmd ==
    \E dirs \in ListsUpTo(PatternChoices, MaxPatterns),
       files \in ListsUpTo(PatternChoices, MaxPatterns),
       a \in ArgChoices : InitWith(dirs, files, a)

(* --------------------------- Session Manager --------------------------- *)
\* sys.exit(code) raised in thread t.  In the main thread SystemExit ends the
\* process with that status.  In the observer thread it only ends the thread:
\* the process keeps running and main's observer.join() returns.
SysExit(t, code) ==
    IF t = "main"
    THEN /\ exitStatus' = code
         /\ exitCause' = IF code = 0 THEN "stop_sync" ELSE "fatal"
         /\ pc' = pc
    ELSE /\ pc' = [pc EXCEPT ![t] = "ended"]
         /\ UNCHANGED <<exitStatus, exitCause>>

\* setup_ssh, lines 82-86: Popen succeeds and the handle is stored.
PopenOk(t) ==
    /\ spawned' = spawned + 1
    /\ alive' = alive \cup {spawned + 1}
    /\ ssh_process' = spawned + 1
    /\ newPid' = [newPid EXCEPT ![t] = spawned + 1]
    /\ UNCHANGED <<termSent, termIssued, crashes>>

\* setup_ssh, lines 87-90: Popen raises; the error is printed, sys.exit(1).
PopenFails(t) ==
    /\ setupFailed' = TRUE
    /\ SysExit(t, 1)
    /\ UNCHANGED <<sshVars, newPid>>

\* __init__, lines 57-58: the exclusion arguments, built from the patterns.
ExcludeDirs(dirs) == [i \in 1..Len(dirs) |-> <<"--exclude=">> \o dirs[i]]

ExcludeFiles(files) ==
    [i \in 1..Len(files) |-> <<"--exclude=", Q>> \o files[i] \o <<Q>>]

\* __init__ (lines 56-63) called by SyncOnChanges(args), line 149: the
\* exclusion arguments are built, then setup_ssh is called.
Construct ==
    /\ MainRuns
    /\ pc["main"] = "construct"
    /\ ignored_dirs' = ExcludeDirs(cfg_dirs)
    /\ ignored_files' = ExcludeFiles(cfg_files)
    /\ UNCHANGED <<cfgVars, commands, lastStatus, unsynced>>
    /\ \/ /\ PopenOk("main")
          /\ pc' = [pc EXCEPT !["main"] = MainNext("construct")]
          /\ UNCHANGED exitVars
       \/ PopenFails("main")
    /\ UNCHANGED <<sigVars, obsVars, cur, sawDead, checks, mirrorVars>>

\* A health check that sees the session dead and does not restart it.
check_ssh_noRestart(t) ==
    /\ Running
    /\ t = "main" => MainRuns
    /\ pc[t] = "check_ssh"
    /\ checks' = [checks EXCEPT ![t] = @ + 1]
    /\ sawDead' = IF PollDead(ssh_process)
                  THEN [sawDead EXCEPT ![t] = ssh_process] ELSE sawDead
    /\ pc' = [pc EXCEPT ![t] = "system"]
    /\ UNCHANGED <<sigVars, obsVars, cur, newPid, mirrorVars, sshVars, exitVars>>
    /\ UNCHANGED <<cfgVars, selfVars, commands, lastStatus, unsynced>>

\* A health check that restarts the session whatever poll() returns.
check_ssh_alwaysRestart(t) ==
    /\ Running
    /\ t = "main" => MainRuns
    /\ pc[t] = "check_ssh"
    /\ checks' = [checks EXCEPT ![t] = @ + 1]
    /\ sawDead' = IF PollDead(ssh_process)
                  THEN [sawDead EXCEPT ![t] = ssh_process] ELSE sawDead
    /\ pc' = [pc EXCEPT ![t] = "setup_ssh"]
    /\ UNCHANGED <<sigVars, obsVars, cur, newPid, mirrorVars, sshVars, exitVars>>
    /\ UNCHANGED <<cfgVars, selfVars, commands, lastStatus, unsynced>>

\* check_ssh, lines 95-96: poll the stored handle.
check_ssh(t) ==
    /\ Running
    /\ t = "main" => MainRuns
    /\ pc[t] = "check_ssh"
    /\ checks' = [checks EXCEPT ![t] = @ + 1]
    /\ IF PollDead(ssh_process)
       THEN /\ sawDead' = [sawDead EXCEPT ![t] = ssh_process]
            /\ pc' = [pc EXCEPT ![t] = "setup_ssh"]
       ELSE /\ pc' = [pc EXCEPT ![t] = "system"]
            /\ UNCHANGED sawDead
    /\ UNCHANGED <<sigVars, obsVars, cur, newPid, mirrorVars, sshVars, exitVars>>
    /\ UNCHANGED <<cfgVars, selfVars, commands, lastStatus, unsynced>>

\* check_ssh, line 98: setup_ssh called because the session was seen dead.
setup_ssh(t) ==
    /\ Running
    /\ t = "main" => MainRuns
    /\ pc[t] = "setup_ssh"
    /\ \/ /\ PopenOk(t)
          /\ pc' = [pc EXCEPT ![t] = "system"]
          /\ UNCHANGED exitVars
       \/ PopenFails(t)
    /\ UNCHANGED <<sigVars, obsVars, cur, sawDead, checks, mirrorVars>>
    /\ UNCHANGED <<cfgVars, selfVars, commands, lastStatus, unsynced>>

(* ---------------------------- Mirror Invoker --------------------------- *)
\* __init__, line 60: self.rsync_ssh_config.
RsyncSshConfig(a) ==
    <<Q, "ssh", Sp, "-p", Sp, ToString(a.remoteport), Sp, "-o", Sp,
      "LogLevel=error", Sp, "-oControlPath=~/.ssh/%r@%h:%p_%l", Q>>

\* rsync_exec, lines 107-109: the destination.
Remote(a) == a.remoteuser \o <<"@">> \o a.remoteserver \o <<":">> \o a.remotepath

\* rsync_exec, lines 105-126: command_list.
CommandList(dirs, files, a) ==
    LET excludes == dirs \o files
        head == << <<"rsync">>, <<"-azrP">>, <<"--no-motd">> >>
        rest == << <<"-i">>, <<"--out-format=", Q, "%i", Sp, "%n%L", Q>>,
                   <<"--delete">>, <<"-e">>, RsyncSshConfig(a) >>
                \o excludes \o <<a.localpath, Remote(a)>>
    IN  IF a.verbose THEN head \o << <<"--verbose">> >> \o rest ELSE head \o rest

\* rsync_exec, line 129: os.system(" ".join(command_list)) hands the joined
\* line to the shell, which runs the words it makes of it.
Executed(dirs, files, a) == ShellWords(Join(CommandList(dirs, files, a)))

\* A rsync_exec whose excludes list aliases self.ignored_dirs and is extended
\* in place, so that every call leaves the attribute longer.
system_begin_aliasing(t) ==
    /\ Running
    /\ t = "main" => MainRuns
    /\ pc[t] = "system"
    /\ passes' = Append(passes, cur[t])
    /\ ignored_dirs' = ignored_dirs \o ignored_files
    /\ commands' = Append(commands, Executed(ignored_dirs', <<>>, args))
    /\ pc' = [pc EXCEPT ![t] = "rsync"]
    /\ unsynced' = FALSE
    /\ UNCHANGED <<cfgVars, ignored_files, lastStatus>>
    /\ UNCHANGED <<sigVars, obsVars, callVars, completed, sshVars, exitVars>>

\* rsync_exec, line 129: os.system starts the mirror command and blocks.
system_begin(t) ==
    /\ Running
    /\ t = "main" => MainRuns
    /\ pc[t] = "system"
    /\ passes' = Append(passes, cur[t])
    /\ commands' = Append(commands, Executed(ignored_dirs, ignored_files, args))
    /\ pc' = [pc EXCEPT ![t] = "rsync"]
    /\ unsynced' = FALSE
    /\ UNCHANGED <<cfgVars, selfVars, lastStatus>>
    /\ UNCHANGED <<sigVars, obsVars, callVars, completed, sshVars, exitVars>>

\* Exit statuses of the mirror command: success and failure.
RsyncStatuses == {0, 1}

\* A rsync_exec that runs the mirror command again when it failed.
system_end_retry(t) ==
    /\ Running
    /\ pc[t] = "rsync"
    /\ completed' = completed + 1
    /\ \E st \in RsyncStatuses :
          /\ lastStatus' = st
          /\ pc' = [pc EXCEPT ![t] = IF st = 0 THEN ReturnPc(t) ELSE "system"]
    /\ UNCHANGED <<sigVars, obsVars, callVars, passes, sshVars, exitVars>>
    /\ UNCHANGED <<cfgVars, selfVars, commands, unsynced>>

\* rsync_exec, line 129: the mirror command exits and os.system returns (its
\* return value is not used).
\* The calling thread is blocked inside the C call until then, so a handler
\* waiting on the main thread does not hold this step back.
system_end(t) ==
    /\ Running
    /\ pc[t] = "rsync"
    /\ completed' = completed + 1
    /\ \E st \in RsyncStatuses : lastStatus' = st
    /\ pc' = [pc EXCEPT ![t] = ReturnPc(t)]
    /\ UNCHANGED <<sigVars, obsVars, callVars, passes, sshVars, exitVars>>
    /\ UNCHANGED <<cfgVars, selfVars, commands, unsynced>>

\* Entry of rsync_exec by thread t for trigger e: fresh per-call bookkeeping.
EnterRsync(t, e) ==
    /\ cur' = [cur EXCEPT ![t] = e.id]
    /\ sawDead' = [sawDead EXCEPT ![t] = 0]
    /\ newPid' = [newPid EXCEPT ![t] = 0]
    /\ checks' = [checks EXCEPT ![t] = 0]
    /\ pc' = [pc EXCEPT ![t] = RsyncEntry]

(* ---------------------------- Change Reactor --------------------------- *)
\* An on_start that returns without running the mirror command.
on_start_noPass ==
    /\ MainRuns
    /\ pc["main"] = "on_start"
    /\ pc' = [pc EXCEPT !["main"] = MainNext("on_start")]
    /\ UNCHANGED <<sigVars, obsVars, callVars, mirrorVars, sshVars, exitVars>>
    /\ UNCHANGED <<cfgVars, selfVars, commands, lastStatus, unsynced>>

\* on_start, lines 131-136, called at line 165.
on_start ==
    /\ MainRuns
    /\ pc["main"] = "on_start"
    /\ EnterRsync("main", StartTrigger)
    /\ UNCHANGED <<sigVars, obsVars, mirrorVars, sshVars, exitVars>>
    /\ UNCHANGED <<cfgVars, selfVars, commands, lastStatus, unsynced>>

\* The observer thread's loop test: it leaves the loop once stop() was called.
ObsLoop ==
    /\ Running
    /\ pc["obs"] = "loop"
    /\ pc' = [pc EXCEPT !["obs"] = IF observerStopped THEN "ended" ELSE "get"]
    /\ UNCHANGED <<sigVars, obsVars, callVars, mirrorVars, sshVars, exitVars>>
    /\ UNCHANGED <<cfgVars, selfVars, commands, lastStatus, unsynced>>

\* The observer thread, blocked on its queue, is woken by stop().
ObsWake ==
    /\ Running
    /\ pc["obs"] = "get"
    /\ queue = <<>>
    /\ observerStopped
    /\ pc' = [pc EXCEPT !["obs"] = "loop"]
    /\ UNCHANGED <<sigVars, obsVars, callVars, mirrorVars, sshVars, exitVars>>
    /\ UNCHANGED <<cfgVars, selfVars, commands, lastStatus, unsynced>>

\* An on_any_event that ignores "deleted" events.
on_any_event_filtered ==
    /\ Running
    /\ pc["obs"] = "get"
    /\ queue # <<>>
    /\ delivered' = Append(delivered, Head(queue).id)
    /\ queue' = Tail(queue)
    /\ IF Head(queue).kind = "deleted"
       THEN /\ pc' = [pc EXCEPT !["obs"] = "loop"]
            /\ UNCHANGED callVars
       ELSE EnterRsync("obs", Head(queue))
    /\ UNCHANGED <<sigVars, observerStopped, arrivals, mirrorVars, sshVars, exitVars>>
    /\ UNCHANGED <<cfgVars, selfVars, commands, lastStatus, unsynced>>

\* on_any_event, lines 138-143: called by the observer thread with the next
\* queued event, whatever its kind and path; it calls rsync_exec.
on_any_event ==
    /\ Running
    /\ pc["obs"] = "get"
    /\ queue # <<>>
    /\ delivered' = Append(delivered, Head(queue).id)
    /\ queue' = Tail(queue)
    /\ EnterRsync("obs", Head(queue))
    /\ UNCHANGED <<sigVars, observerStopped, arrivals, mirrorVars, sshVars, exitVars>>
    /\ UNCHANGED <<cfgVars, selfVars, commands, lastStatus, unsynced>>

\* A delivery mechanism that drops an event raised while a mirror command is
\* in flight.
Arrive_dropBusy(e) ==
    /\ Running
    /\ pc["obs"] # "unstarted"
    /\ ~observerStopped
    /\ arrivals < MaxEvents
    /\ arrivals' = arrivals + 1
    /\ queue' = IF InFlight > 0 THEN queue
                ELSE Append(queue, [id |-> arrivals + 1, kind |-> e.kind, path |-> e.path])
    /\ unsynced' = TRUE
    /\ UNCHANGED <<pc, sigVars, observerStopped, delivered, callVars, mirrorVars,
                   sshVars, exitVars>>
    /\ UNCHANGED <<cfgVars, selfVars, commands, lastStatus>>

\* A local change under the watched tree while the observer runs: the
\* notification subsystem queues a filesystem event (environment).
Arrive(e) ==
    /\ Running
    /\ pc["obs"] # "unstarted"
    /\ ~observerStopped
    /\ arrivals < MaxEvents
    /\ arrivals' = arrivals + 1
    /\ queue' = Append(queue, [id |-> arrivals + 1, kind |-> e.kind, path |-> e.path])
    /\ unsynced' = TRUE
    /\ UNCHANGED <<pc, sigVars, observerStopped, delivered, callVars, mirrorVars,
                   sshVars, exitVars>>
    /\ UNCHANGED <<cfgVars, selfVars, commands, lastStatus>>

\* A local change made while no watch is active: observer.start() (line 169)
\* has not run yet, so the change produces no event (environment).
LocalChangeUnwatched ==
    /\ Running
    /\ pc["obs"] = "unstarted"
    /\ ~unsynced
    /\ unsynced' = TRUE
    /\ UNCHANGED <<pc, sigVars, obsVars, callVars, mirrorVars, sshVars, exitVars>>
    /\ UNCHANGED <<cfgVars, selfVars, commands, lastStatus>>

(* -------------------------- Lifecycle Controller ----------------------- *)
\* Lines 147-148: get_parser_args(), Observer().
ParseArgs ==
    /\ MainRuns
    /\ pc["main"] = "args"
    /\ pc' = [pc EXCEPT !["main"] = MainNext("args")]
    /\ UNCHANGED <<sigVars, obsVars, callVars, mirrorVars, sshVars, exitVars>>
    /\ UNCHANGED <<cfgVars, selfVars, commands, lastStatus, unsynced>>

\* Line 160 (SIGINT) and line 163 (SIGTERM): signal.signal(s, stop_sync).
InstallHandler(s) ==
    /\ MainRuns
    /\ pc["main"] = (IF s = "SIGINT" THEN "sigint" ELSE "sigterm")
    /\ installed' = installed \cup {s}
    /\ pc' = [pc EXCEPT !["main"] = MainNext(pc["main"])]
    /\ UNCHANGED <<pending, sigCount, sigHandled, stopFrom, stopPc, obsVars,
                   callVars, mirrorVars, sshVars, exitVars>>
    /\ UNCHANGED <<cfgVars, selfVars, commands, lastStatus, unsynced>>

\* Line 168: observer.schedule(...).
Schedule ==
    /\ MainRuns
    /\ pc["main"] = "schedule"
    /\ pc' = [pc EXCEPT !["main"] = MainNext("schedule")]
    /\ UNCHANGED <<sigVars, obsVars, callVars, mirrorVars, sshVars, exitVars>>
    /\ UNCHANGED <<cfgVars, selfVars, commands, lastStatus, unsynced>>

\* Line 169: observer.start() starts the observer thread.
ObserverStart ==
    /\ MainRuns
    /\ pc["main"] = "start"
    /\ pc["obs"] = "unstarted"
    /\ pc' = [pc EXCEPT !["main"] = MainNext("start"), !["obs"] = "loop"]
    /\ UNCHANGED <<sigVars, obsVars, callVars, mirrorVars, sshVars, exitVars>>
    /\ UNCHANGED <<cfgVars, selfVars, commands, lastStatus, unsynced>>

\* Line 170: observer.join() returns once the observer thread has ended, the
\* script reaches its end and the process exits with status 0.
JoinReturns ==
    /\ MainRuns
    /\ pc["main"] = "join"
    /\ pc["obs"] = "ended"
    /\ exitStatus' = 0
    /\ exitCause' = "script_end"
    /\ UNCHANGED <<pc, sigVars, obsVars, callVars, mirrorVars, sshVars, setupFailed>>
    /\ UNCHANGED <<cfgVars, selfVars, commands, lastStatus, unsynced>>

\* A signal reaches the process (environment).  Without an installed handler
\* the process is killed.  While a thread is inside os.system the C library
\* ignores SIGINT in the calling process, so that delivery has no effect.
Signal(s) ==
    /\ Running
    /\ sigCount < MaxSignals
    /\ ~(s = "SIGINT" /\ InFlight > 0)
    /\ sigCount' = sigCount + 1
    /\ IF s \in installed
       THEN /\ pending' = pending \cup {s}
            /\ UNCHANGED <<exitStatus, exitCause>>
       ELSE /\ exitStatus' = 128 + SigNum(s)
            /\ exitCause' = "killed"
            /\ UNCHANGED pending
    /\ UNCHANGED <<pc, installed, sigHandled, stopFrom, stopPc, obsVars, callVars,
                   mirrorVars, sshVars, setupFailed>>
    /\ UNCHANGED <<cfgVars, selfVars, commands, lastStatus, unsynced>>

\* The main thread calls stop_sync(signum, frame), lines 151-154.  It cannot
\* do so while it is blocked inside os.system.  A handler called while an
\* earlier stop_sync is still running starts the sequence again; the earlier
\* one never resumes because the later one ends in sys.exit.
StopSyncEnter(s) ==
    /\ Running
    /\ s \in Deliverable
    /\ pc["main"] # "rsync"
    /\ pending' = pending \ {s}
    /\ sigHandled' = s
    /\ stopFrom' = IF stopFrom = "none" THEN Phase ELSE stopFrom
    /\ stopPc' = StopOrder[1]
    /\ UNCHANGED <<pc, installed, sigCount, obsVars, callVars, mirrorVars,
                   sshVars, exitVars>>
    /\ UNCHANGED <<cfgVars, selfVars, commands, lastStatus, unsynced>>

\* Line 155: observer.stop().  It flags the observer thread and the emitters
\* to stop and returns without waiting for them.
StopObserver ==
    /\ Running
    /\ stopPc = "stop"
    /\ Deliverable = {}
    /\ observerStopped' = TRUE
    /\ stopPc' = StopNext("stop")
    /\ UNCHANGED <<pc, pending, installed, sigCount, sigHandled, stopFrom, queue,
                   arrivals, delivered, callVars, mirrorVars, sshVars, exitVars>>
    /\ UNCHANGED <<cfgVars, selfVars, commands, lastStatus, unsynced>>

\* Line 156: file_system_event_handler.ssh_process.terminate().
StopTerminate ==
    /\ Running
    /\ stopPc = "terminate"
    /\ Deliverable = {}
    /\ termIssued' = TRUE
    /\ termSent' = IF ssh_process \in alive THEN termSent \cup {ssh_process}
                   ELSE termSent
    /\ stopPc' = StopNext("terminate")
    /\ UNCHANGED <<pc, pending, installed, sigCount, sigHandled, stopFrom, obsVars,
                   callVars, mirrorVars, ssh_process, spawned, alive, crashes,
                   exitVars>>
    /\ UNCHANGED <<cfgVars, selfVars, commands, lastStatus, unsynced>>

\* Line 157: sys.exit(0) in the main thread.
StopExit ==
    /\ Running
    /\ stopPc = "exit"
    /\ Deliverable = {}
    /\ SysExit("main", 0)
    /\ UNCHANGED <<sigVars, obsVars, callVars, mirrorVars, sshVars, setupFailed>>
    /\ UNCHANGED <<cfgVars, selfVars, commands, lastStatus, unsynced>>

(* ------------------------------ environment ---------------------------- *)
\* A remote-shell process dies on its own (network loss, remote reboot).
SshCrash(p) ==
    /\ Running
    /\ p \in alive
    /\ crashes < MaxCrashes
    /\ crashes' = crashes + 1
    /\ alive' = alive \ {p}
    /\ UNCHANGED <<pc, sigVars, obsVars, callVars, mirrorVars, ssh_process,
                   spawned, termSent, termIssued, exitVars>>
    /\ UNCHANGED <<cfgVars, selfVars, commands, lastStatus, unsynced>>

\* A remote-shell process that was sent the termination request exits.
SshTerminated(p) ==
    /\ p \in alive
    /\ p \in termSent
    /\ alive' = alive \ {p}
    /\ UNCHANGED <<pc, sigVars, obsVars, callVars, mirrorVars, ssh_process,
                   spawned, termSent, termIssued, crashes, exitVars>>
    /\ UNCHANGED <<cfgVars, selfVars, commands, lastStatus, unsynced>>

(* ------------------------------- Next ---------------------------------- *)
Next ==
    \/ ParseArgs
    \/ Construct
    \/ \E s \in Signals : InstallHandler(s)
    \/ on_start
    \/ \E t \in Threads : check_ssh(t)
    \/ \E t \in Threads : setup_ssh(t)
    \/ \E t \in Threads : system_begin(t)
    \/ \E t \in Threads : system_end(t)
    \/ Schedule
    \/ ObserverStart
    \/ JoinReturns
    \/ ObsLoop
    \/ ObsWake
    \/ on_any_event
    \/ \E e \in Events : Arrive(e)
    \/ LocalChangeUnwatched
    \/ \E s \in Signals : Signal(s)
    \/ \E s \in Signals : StopSyncEnter(s)
    \/ StopObserver
    \/ StopTerminate
    \/ StopExit
    \/ \E p \in 1..spawned : SshCrash(p)
    \/ \E p \in 1..spawned : SshTerminated(p)

Spec == Init /\ [][Next]_vars

\* The steps of the main thread: the script body (lines 146-170) and, since
\* Python runs signal handlers on the main thread, stop_sync (lines 151-157).
MainStep ==
    \/ ParseArgs
    \/ Construct
    \/ \E s \in Signals : InstallHandler(s)
    \/ on_start
    \/ check_ssh("main")
    \/ setup_ssh("main")
    \/ system_begin("main")
    \/ system_end("main")
    \/ Schedule
    \/ ObserverStart
    \/ JoinReturns
    \/ \E s \in Signals : StopSyncEnter(s)
    \/ StopObserver
    \/ StopTerminate
    \/ StopExit

\* The steps of the observer thread started at line 169: its dispatch loop
\* and the on_any_event handler it calls (lines 138-143).
ObsStep ==
    \/ ObsLoop
    \/ ObsWake
    \/ on_any_event
    \/ check_ssh("obs")
    \/ setup_ssh("obs")
    \/ system_begin("obs")
    \/ system_end("obs")

\* The program in the runs in which no termination signal arrives, so that
\* stop_sync never runs.
NextWatch ==
    \/ ParseArgs
    \/ Construct
    \/ \E s \in Signals : InstallHandler(s)
    \/ on_start
    \/ \E t \in Threads : check_ssh(t)
    \/ \E t \in Threads : setup_ssh(t)
    \/ \E t \in Threads : system_begin(t)
    \/ \E t \in Threads : system_end(t)
    \/ Schedule
    \/ ObserverStart
    \/ JoinReturns
    \/ ObsLoop
    \/ on_any_event
    \/ \E e \in Events : Arrive(e)
    \/ LocalChangeUnwatched
    \/ \E p \in 1..spawned : SshCrash(p)

\* Those runs under a fair scheduler: a thread that can take a step takes
\* one, which includes that a mirror command a thread waits for terminates.
\* Nothing is required of the environment: events, local changes and deaths
\* of the remote shell may or may not happen.
FairSpec == Init /\ [][NextWatch]_vars /\ WF_vars(MainStep) /\ WF_vars(ObsStep)

\* The program run over every configuration of InitCmd, in a quiet
\* environment: no signal, no death of the remote shell.
NextCmd ==
    \/ ParseArgs
    \/ Construct
    \/ \E s \in Signals : InstallHandler(s)
    \/ on_start
    \/ \E t \in Threads : check_ssh(t)
    \/ \E t \in Threads : system_begin(t)
    \/ \E t \in Threads : system_end(t)
    \/ Schedule
    \/ ObserverStart
    \/ ObsLoop
    \/ on_any_event
    \/ \E e \in Events : Arrive(e)

SpecCmd == InitCmd /\ [][NextCmd]_vars

(* ======================= properties: claims C1-C10 ===================== *)
IsPrefix(a, b) == Len(a) <= Len(b) /\ SubSeq(b, 1, Len(a)) = a

\* Mirror commands started for a ChangeEvent (all but the on_start pass).
EventPasses == SelectSeq(passes, LAMBDA r : r # StartTrigger.id)

StartPasses == SelectSeq(passes, LAMBDA r : r = StartTrigger.id)

\* Thread t is executing, or about to execute, its mirror command.
AtMirror(t) == pc[t] \in {"system", "rsync"}

\* C1: no two mirror invocations overlap: at most one mirror command, the
\* initial one or an event-triggered one, is in flight in every reachable state.
C1_NoOverlap == InFlight <= 1

C1_Witness ==
    /\ pc["obs"] = "rsync"
    /\ InFlight = 1
    /\ Len(passes) >= 2

C3_OneReplacement ==
    \A t \in Threads :
        /\ (newPid[t] # 0 => sawDead[t] # newPid[t])
        /\ (AtMirror(t) /\ sawDead[t] # 0) =>
              /\ newPid[t] # 0
              /\ newPid[t] # sawDead[t]
              /\ ssh_process = newPid[t]
              /\ spawned = newPid[t]
              /\ \A p \in 1..spawned : (p > sawDead[t]) => p = newPid[t]

C3_Witness ==
    /\ pc["obs"] = "rsync"
    /\ sawDead["obs"] = 1
    /\ newPid["obs"] = 2

\* C4: exactly one on_start pass: it is the first mirror command, it starts
\* with a session established, and it has completed before the observer is
\* started and before any event-triggered pass begins.
C4_InitialPass ==
    /\ Len(StartPasses) <= 1
    /\ passes # <<>> => (passes[1] = StartTrigger.id /\ spawned >= 1)
    /\ pc["obs"] # "unstarted" => (Len(StartPasses) = 1 /\ completed >= 1)
    /\ Len(passes) >= 2 => completed >= 1

C4_Witness ==
    /\ pc["main"] = "join"
    /\ pc["obs"] = "get"
    /\ arrivals = 0
    /\ passes = <<StartTrigger.id>>
    /\ completed = 1

C6_FatalSetupFailure ==
    (setupFailed /\ exitStatus # -1) => exitStatus # 0

\* C7: a mirror command runs only after exactly one health check in the same
\* call, which saw the session alive or replaced it by the handle now stored;
\* and a process is spawned only at construction or by a call whose health
\* check has just seen the stored session dead.
C7_CheckedBeforeMirror ==
    /\ [](\A t \in Threads : AtMirror(t) =>
              /\ checks[t] = 1
              /\ sawDead[t] # ssh_process
              /\ (sawDead[t] = 0 \/ (newPid[t] # 0 /\ ssh_process = newPid[t])))
    /\ [][spawned' # spawned =>
              \/ pc["main"] = "construct"
              \/ \E t \in Threads : /\ pc[t] = "setup_ssh"
                                    /\ checks[t] = 1
                                    /\ sawDead[t] = ssh_process]_vars

C7_Witness ==
    /\ pc["obs"] = "rsync"
    /\ checks["obs"] = 1
    /\ sawDead["obs"] = 0
    /\ spawned = 2
    /\ Len(passes) = 3

\* C8: at most one remote-shell process spawned by the program is alive, it is
\* the one behind the stored handle, and a process is spawned only when the
\* stored one is dead and has been seen dead by the spawning call (or when
\* none is stored yet).
C8_SingleSession ==
    /\ [](Cardinality(alive) <= 1 /\ alive \subseteq {ssh_process})
    /\ [][spawned' # spawned =>
              /\ ssh_process \notin alive
              /\ \/ ssh_process = 0
                 \/ \E t \in Threads : sawDead[t] = ssh_process]_vars

C8_Witness ==
    /\ spawned = 3
    /\ alive = {3}
    /\ ssh_process = 3

Rank(ph) ==
    CASE ph = "INIT"            -> 0
      [] ph = "CONNECTING"      -> 1
      [] ph = "SYNCING-INITIAL" -> 2
      [] ph = "WATCHING"        -> 3
      [] ph = "STOPPING"        -> 4
      [] OTHER                  -> 5

\* C10 as stated: every lifecycle state is entered only from its predecessor,
\* so STOPPING only from WATCHING (an exit with a non-zero status may enter
\* STOPPED from anywhere), and after STOPPED nothing is mirrored or spawned.
C10_LinearLifecycle ==
    /\ [][Phase' # Phase =>
              \/ Rank(Phase') = Rank(Phase) + 1
              \/ (Phase' = "STOPPED" /\ exitStatus' # 0)]_vars
    /\ [][~Running => (passes' = passes /\ spawned' = spawned)]_vars

\* C10 amended: the lifecycle only moves forward; CONNECTING, SYNCING-INITIAL
\* and WATCHING are entered only from their predecessor; STOPPING is entered
\* from SYNCING-INITIAL or from WATCHING; STOPPED is entered with status 0 only
\* from STOPPING or from WATCHING; after STOPPED nothing is mirrored, spawned
\* or stored and no thread moves.
C10_ForwardLifecycle ==
    /\ [][Phase' # Phase =>
              /\ Rank(Phase') > Rank(Phase)
              /\ Phase' \in {"CONNECTING", "SYNCING-INITIAL", "WATCHING"} =>
                    Rank(Phase') = Rank(Phase) + 1
              /\ Phase' = "STOPPING" => Phase \in {"SYNCING-INITIAL", "WATCHING"}
              /\ (Phase' = "STOPPED" /\ exitStatus' = 0) =>
                    Phase \in {"STOPPING", "WATCHING"}]_vars
    /\ [][~Running => UNCHANGED <<pc, stopPc, passes, completed, spawned,
                                  ssh_process, termSent, exitStatus>>]_vars

C10_Witness ==
    /\ stopFrom = "SYNCING-INITIAL"
    /\ exitCause = "stop_sync"
    /\ pc["main"] = "check_ssh"
    /\ pc["obs"] = "unstarted"

(* ======================= properties: claims C11-C17 ==================== *)
\* The exclusion arguments of an argument vector, in order.
ExclusionArgs(cmd) == SelectSeq(cmd, LAMBDA w : w # <<>> /\ w[1] = "--exclude=")

\* C11: the exclusion argument lists are written by the constructor only, no
\* later step of any operation changes them, and any two mirror commands of
\* the process carry the same exclusion arguments in the same order.
C11_ExclusionsStable ==
    /\ [][pc["main"] # "construct" => UNCHANGED <<ignored_dirs, ignored_files>>]_vars
    /\ [](\A i, j \in 1..Len(commands) :
              ExclusionArgs(commands[i]) = ExclusionArgs(commands[j]))

C11_Witness ==
    /\ Len(commands) = 3
    /\ spawned = 2
    /\ termIssued
    /\ Len(ExclusionArgs(commands[3])) = 3
    /\ commands[3] # <<>>

\* C12: for any configured pattern lists, every mirror command that is run
\* has exactly one exclusion argument per pattern, directory patterns first
\* and each list in configured order, followed by the local path as source and
\* by remoteuser@remoteserver:remotepath as its last argument.
C12_CommandArguments ==
    \A k \in 1..Len(commands) :
        LET cmd == commands[k]
            nd == Len(cfg_dirs)
            n == Len(cfg_dirs) + Len(cfg_files)
            L == Len(cmd)
        IN  /\ L >= n + 2
            /\ Len(ExclusionArgs(cmd)) = n
            /\ \A i \in 1..nd : cmd[L - 2 - n + i] = <<"--exclude=">> \o cfg_dirs[i]
            /\ \A i \in 1..Len(cfg_files) :
                   cmd[L - 2 - n + nd + i] = <<"--exclude=">> \o cfg_files[i]
            /\ cmd[L - 1] = args.localpath
            /\ cmd[L] = args.remoteuser \o <<"@">> \o args.remoteserver
                            \o <<":">> \o args.remotepath

\* A mirror command has been started for the event numbered n.
Mirrored(n) == \E i \in 1..Len(passes) : passes[i] = n

C15_NoChangeMissed ==
    unsynced ~> (~unsynced \/ sigCount > 0 \/ setupFailed)

\* C14: the exit status of a mirror command changes nothing: the step on which
\* a command ends, failed or not, only returns the calling thread from
\* rsync_exec; it starts no command, spawns no session, ends no thread or
\* process and leaves the lifecycle state as it was. No command is started
\* but the on_start one and one per delivered event, and after a failure the
\* handler still runs its health check before its mirror command.
C14_FailureIgnored ==
    /\ [][completed' = completed + 1 =>
              \E t \in Threads :
                  /\ pc[t] = "rsync"
                  /\ pc' = [pc EXCEPT ![t] = ReturnPc(t)]
                  /\ lastStatus' \in RsyncStatuses
                  /\ Phase' = Phase
                  /\ UNCHANGED <<passes, commands, ssh_process, spawned, alive,
                                 termSent, exitStatus, exitCause, setupFailed,
                                 queue, delivered, observerStopped>>]_vars
    /\ [](Len(passes) <= 1 + Len(delivered))
    /\ [](\A t \in Threads : (lastStatus = 1 /\ AtMirror(t)) => checks[t] >= 1)

C14_Witness ==
    /\ lastStatus = 1
    /\ Phase = "WATCHING"
    /\ pc["obs"] = "rsync"
    /\ checks["obs"] = 1
    /\ completed = 2
    /\ passes = <<0, 1, 2>>

\* C16: a health check that finds the stored process running spawns nothing,
\* leaves the stored handle as it is and lets the call go on to its mirror
\* command; the stored handle is replaced only by a call that saw it dead.
C16_HealthyCheckNoOp ==
    /\ [][\A t \in Threads :
              (checks'[t] = checks[t] + 1 /\ ssh_process \in alive) =>
                  /\ UNCHANGED <<ssh_process, spawned, alive, termSent>>
                  /\ sawDead'[t] = 0
                  /\ pc'[t] = "system"]_vars
    /\ [][(ssh_process' # ssh_process /\ ssh_process # 0) =>
              /\ ssh_process \notin alive
              /\ \E t \in Threads : pc[t] = "setup_ssh" /\ sawDead[t] = ssh_process]_vars

C16_Witness ==
    /\ pc["obs"] = "system"
    /\ checks["obs"] = 1
    /\ sawDead["obs"] = 0
    /\ newPid["obs"] = 0
    /\ ssh_process = 1
    /\ alive = {1}
    /\ Len(passes) = 2

====
